---- MODULE Spec2Model ----
(***************************************************************************)
(* Model of controllers/groupsync_controller.go: the GroupSync reconcile   *)
(* loop.  One reconcile pass (GroupSyncReconciler.Reconcile) is cut at its *)
(* external calls (store get/update, provider Bind/Sync) so that the       *)
(* intermediate store states are visible; manageError and manageSuccess    *)
(* run inside the step that calls them.                                    *)
(***************************************************************************)
EXTENDS Integers, Sequences, FiniteSets, TLC

\* ---------------------------------------------------------------- bounds
MaxPasses == 2          \* reconcile passes started in one behaviour
MaxTime == 1            \* clock ticks in one behaviour

\* ------------------------------------------------------------- constants
SyncProvider == "group-sync-operator.redhat-cop.io/sync-provider"
SyncTimestamp == "group-sync-operator.redhat-cop.io/sync-timestamp"
ConditionType == "groupsync"
ReasonSucceeded == "synchronization succeeded"
ReasonError == "synchronization error"
MessageSucceeded == "group synchronization has succeeded"

Workers == {1, 2}       \* reconcile workers of the controller framework
SeqWorkers == {1}       \* the worker used when passes run one at a time

\* names of GroupSync resources; "gone" is one that was deleted
Resources == {"gs1", "gs2", "gone"}
GroupNames == {"X", "Y"}

\* spec.providers of each GroupSync resource, in spec order
ProviderNames(r) ==
    IF r = "gs1" THEN <<"ldap", "github", "keycloak">> ELSE <<"ldap">>

\* ------------------------------------------------------------------ maps
\* A Go map[string]string is a set of <<key, value>> pairs with unique keys.
MapHas(m, k) == \E p \in m : p[1] = k
MapGet(m, k) == (CHOOSE p \in m : p[1] = k)[2]
MapSet(m, k, v) == {p \in m : p[1] # k} \cup {<<k, v>>}

\* ---------------------------------------------------------------- errors
NoErr == [kind |-> "nil", at |-> ""]
Err(kind, at) == [kind |-> kind, at |-> at]
\* err.Error(): the text of an error value
ErrorText(e) == <<e.kind, e.at>>

\* ------------------------------------------------------------------ time
ClockBase == 11040      \* 03:04:00, seconds after 2023-01-05T00:00:00 UTC
TickSeconds == 30
Unix(n) == ClockBase + n * TickSeconds
NoTime == -1            \* a nil *metav1.Time

\* time.Local, the zone time.Now() reports in
Local == [zone |-> "MSK", offset |-> 10800]

Digit(n) == CASE n = 0 -> "0" [] n = 1 -> "1" [] n = 2 -> "2" [] n = 3 -> "3"
              [] n = 4 -> "4" [] n = 5 -> "5" [] n = 6 -> "6" [] n = 7 -> "7"
              [] n = 8 -> "8" [] n = 9 -> "9"
\* Go integer division truncates toward zero
TruncDiv(a, b) == IF a >= 0 THEN a \div b ELSE -((-a) \div b)
RECURSIVE Digits(_)
Digits(n) == IF n < 10 THEN <<Digit(n)>> ELSE Digits(n \div 10) \o <<Digit(n % 10)>>
RECURSIVE ZeroPad(_, _)
ZeroPad(s, width) == IF Len(s) >= width THEN s ELSE ZeroPad(<<"0">> \o s, width)
\* fmt.Sprintf("%0<width>d", n): the sign counts toward the width
SprintfZeroPad(n, width) ==
    IF n < 0 THEN <<"-">> \o ZeroPad(Digits(-n), width - 1)
    ELSE ZeroPad(Digits(n), width)

\* A time.Time is [unix, zone, offset]; its wall clock is unix + offset,
\* counted from 2023-01-05T00:00:00.
Wall(t) == t.unix + t.offset
DayOf(t) == 5 + (Wall(t) \div 86400)
SecOfDay(t) == Wall(t) % 86400

ISO8601(t) ==
    LET tz == IF t.zone = "UTC" THEN <<"Z">>
              ELSE SprintfZeroPad(TruncDiv(t.offset, 3600), 3) \o <<"0", "0">>
    IN  SprintfZeroPad(2023, 4) \o <<"-">> \o SprintfZeroPad(1, 2) \o <<"-">>
        \o SprintfZeroPad(DayOf(t), 2) \o <<"T">>
        \o SprintfZeroPad(SecOfDay(t) \div 3600, 2) \o <<":">>
        \o SprintfZeroPad((SecOfDay(t) % 3600) \div 60, 2) \o <<":">>
        \o SprintfZeroPad(SecOfDay(t) % 60, 2) \o tz

\* -------------------------------------------------------------- schedule
\* spec.schedule strings: none, one that is no cron expression, one valid
Schedules == {"", "not a cron", "* * * * *"}
\* cron.ParseStandard: a Schedule (here its period in seconds) and nil, or a
\* nil Schedule and an error.
ParseStandard(s) ==
    CASE s = "* * * * *" -> [sched |-> 60, err |-> NoErr]
      [] s = "*/2 * * * *" -> [sched |-> 120, err |-> NoErr]
      [] OTHER -> [sched |-> 0, err |-> Err("cron", s)]
NilSchedule == 0
\* Schedule.Next(t): the first fire time strictly after t
ScheduleNext(sched, unix) == ((unix \div sched) + 1) * sched

\* ------------------------------------------------------------ conditions
Condition(reason, message) ==
    [type |-> ConditionType, status |-> "True", reason |-> reason, message |-> message]
\* SetCondition keeping the conditions already there
SetConditionAppends(conds, c) == Append(conds, c)

\* status.Conditions.SetCondition: replace the condition of the same type in
\* place, append when there is none.
SetCondition(conds, c) ==
    IF \E i \in 1..Len(conds) : conds[i].type = c.type
    THEN [i \in 1..Len(conds) |-> IF conds[i].type = c.type THEN c ELSE conds[i]]
    ELSE Append(conds, c)

\* ---------------------------------------------------------------- groups
NoGroup == [exists |-> FALSE, labels |-> {}, annotations |-> {}, users |-> <<>>]
Group(labels, annotations, users) ==
    [exists |-> TRUE, labels |-> labels, annotations |-> annotations, users |-> users]

NilMap == [isNil |-> TRUE, kv |-> {}]
Map(kv) == [isNil |-> FALSE, kv |-> kv]
ExternalGroup(name, users, labels, annotations) ==
    [name |-> name, users |-> users, labels |-> labels, annotations |-> annotations]

\* what a provider's Sync() may report
SyncResults ==
    { <<>>,
      << ExternalGroup("X", <<"C">>, NilMap, NilMap) >>,
      << ExternalGroup("X", <<"A", "B">>, Map({<<"foo", "bar">>}), Map({<<"note", <<"n">>>>})),
         ExternalGroup("Y", <<"A">>, Map({<<SyncProvider, "evil">>}), NilMap) >> }

\* downstream groups that may exist before the first pass: X made by hand
\* (no ownership label), X owned by gs1's first provider, X owned by gs2
InitialX ==
    { NoGroup,
      Group({<<"foo", "bar">>}, {}, <<"A", "B">>),
      Group({<<"foo", "bar">>, <<SyncProvider, "gs1_ldap">>}, {}, <<"A", "B">>),
      Group({<<SyncProvider, "gs2_ldap">>}, {}, <<"B">>) }

\* ----------------------------------------------------------------- state
VARIABLES
    resources,  \* the GroupSync resources in the store
    groups,     \* the downstream Group objects in the store, by name
    now,        \* the clock, in ticks
    passes,     \* passes started so far
    pass,       \* per worker: the position and locals of its Reconcile call
    stamp       \* a time.Time and the text ISO8601 made of it

vars == <<resources, groups, now, passes, pass, stamp>>

NoResult == [kind |-> "none", requeueAfter |-> 0, err |-> NoErr]
Result(requeueAfter, err) == [kind |-> "returned", requeueAfter |-> requeueAfter, err |-> err]
Panic == [kind |-> "panic", requeueAfter |-> 0, err |-> NoErr]

NoResource == [exists |-> FALSE, schedule |-> "", defaulted |-> FALSE,
               lastSync |-> NoTime, conditions |-> <<>>]

IdlePass ==
    [pc |-> "idle", req |-> "", inst |-> NoResource, fetched |-> NoResource,
     pidx |-> 0, groups |-> <<>>, gidx |-> 0, ocpGroup |-> NoGroup,
     bound |-> <<>>, synced |-> <<>>, reads |-> <<>>, skipped |-> <<>>,
     writes |-> <<>>, events |-> <<>>, statusUpdates |-> <<>>, specUpdates |-> <<>>,
     stamped |-> FALSE, result |-> NoResult]

\* time.Now()
Now == [unix |-> Unix(now), zone |-> Local.zone, offset |-> Local.offset]

\* no time formatted yet
NotFormatted == <<>>
NoStamp == [t |-> [unix |-> ClockBase, zone |-> "UTC", offset |-> 0],
            text |-> NotFormatted]

\* the GroupSync resources that may be stored before the first pass: gs1 with
\* any schedule, defaulted or not; gs2 defaulted and unscheduled
InitialResource(r) ==
    CASE r = "gs1" ->
           {[exists |-> TRUE, schedule |-> s, defaulted |-> d,
             lastSync |-> NoTime, conditions |-> <<>>] : s \in Schedules, d \in BOOLEAN}
      [] r = "gs2" ->
           {[exists |-> TRUE, schedule |-> "", defaulted |-> TRUE,
             lastSync |-> NoTime, conditions |-> <<>>]}
      [] OTHER -> {NoResource}

Init ==
    /\ resources \in [Resources -> UNION {InitialResource(r) : r \in Resources}]
    /\ \A r \in Resources : resources[r] \in InitialResource(r)
    /\ \E x \in InitialX : groups = [g \in GroupNames |-> IF g = "X" THEN x ELSE NoGroup]
    /\ now = 0
    /\ passes = 0
    /\ pass = [w \in Workers |-> IdlePass]
    /\ stamp = NoStamp

\* ------------------------------------------------------------ reporting
\* fmt.Sprintf("%s_%s", instance.Name, groupSyncer.GetProviderName())
ProviderLabel(r, p) ==
    CASE r = "gs1" /\ p = "ldap" -> "gs1_ldap"
      [] r = "gs1" /\ p = "github" -> "gs1_github"
      [] r = "gs1" /\ p = "keycloak" -> "gs1_keycloak"
      [] r = "gs2" /\ p = "ldap" -> "gs2_ldap"

\* Status().Update(instance): the status of the in-memory instance replaces
\* the stored one
StatusUpdate(res, r, inst) ==
    [res EXCEPT ![r].lastSync = inst.lastSync, ![r].conditions = inst.conditions]

\* manageError without the call of the event recorder
manageErrorNoEvent(ps, w, err, updateOk) ==
    LET inst == [ps[w].inst EXCEPT
                   !.conditions = SetCondition(@, Condition(ReasonError, ErrorText(err)))]
    IN  /\ pass' = [ps EXCEPT ![w] = [@ EXCEPT
                      !.pc = "done",
                      !.inst = inst,
                      !.statusUpdates = Append(@, updateOk),
                      !.result = Result(0, err)]]
        /\ resources' = IF updateOk THEN StatusUpdate(resources, ps[w].req, inst)
                        ELSE resources

\* manageError returning the error of its status update when that fails
manageErrorReturnsUpdateErr(ps, w, err, updateOk) ==
    LET inst == [ps[w].inst EXCEPT
                   !.conditions = SetCondition(@, Condition(ReasonError, ErrorText(err)))]
    IN  /\ pass' = [ps EXCEPT ![w] = [@ EXCEPT
                      !.pc = "done",
                      !.inst = inst,
                      !.events = Append(@, [type |-> "Warning", reason |-> "GroupSyncError",
                                            message |-> ErrorText(err)]),
                      !.statusUpdates = Append(@, updateOk),
                      !.result = IF updateOk THEN Result(0, err)
                                 ELSE Result(0, Err("status", ps[w].req))]]
        /\ resources' = IF updateOk THEN StatusUpdate(resources, ps[w].req, inst)
                        ELSE resources

\* manageError stamping the time of the attempt
manageErrorStamps(ps, w, err, updateOk) ==
    LET inst == [ps[w].inst EXCEPT
                   !.lastSync = Unix(now),
                   !.conditions = SetCondition(@, Condition(ReasonError, ErrorText(err)))]
    IN  /\ pass' = [ps EXCEPT ![w] = [@ EXCEPT
                      !.pc = "done",
                      !.inst = inst,
                      !.events = Append(@, [type |-> "Warning", reason |-> "GroupSyncError",
                                            message |-> ErrorText(err)]),
                      !.statusUpdates = Append(@, updateOk),
                      !.result = Result(0, err)]]
        /\ resources' = IF updateOk THEN StatusUpdate(resources, ps[w].req, inst)
                        ELSE resources

\* manageError(instance, err), entered from the pass state ps: event, failure
\* condition, status update whose own outcome updateOk is logged only;
\* returns Result{} and err.
manageErrorFrom(ps, w, err, updateOk) ==
    LET inst == [ps[w].inst EXCEPT
                   !.conditions = SetCondition(@, Condition(ReasonError, ErrorText(err)))]
    IN  /\ pass' = [ps EXCEPT ![w] = [@ EXCEPT
                      !.pc = "done",
                      !.inst = inst,
                      !.events = Append(@, [type |-> "Warning", reason |-> "GroupSyncError",
                                            message |-> ErrorText(err)]),
                      !.statusUpdates = Append(@, updateOk),
                      !.result = Result(0, err)]]
        /\ resources' = IF updateOk THEN StatusUpdate(resources, ps[w].req, inst)
                        ELSE resources

manageError(w, err, updateOk) == manageErrorFrom(pass, w, err, updateOk)

\* -------------------------------------------------------------- actions
\* the framework hands a reconcile request to worker w, some time after the
\* previous pass ended
Start(w) ==
    /\ pass[w].pc \in {"idle", "done"}
    /\ \A v \in Workers \ {w} : pass[v].pc \in {"idle", "done"}
    /\ passes < MaxPasses
    /\ \E r \in Resources :
         pass' = [pass EXCEPT ![w] = [IdlePass EXCEPT !.pc = "fetch", !.req = r]]
    /\ passes' = passes + 1
    /\ now' \in now..MaxTime
    /\ UNCHANGED <<resources, groups, stamp>>

\* Fetch with not-found handed to manageError like any other failure
FetchReportsNotFound(w) ==
    /\ pass[w].pc = "fetch"
    /\ LET r == pass[w].req IN
       \/ /\ ~resources[r].exists
          /\ manageErrorFrom(pass, w, Err("notfound", r), FALSE)
       \/ /\ resources[r].exists
          /\ pass' = [pass EXCEPT ![w].pc = "mgr", ![w].inst = resources[r],
                                  ![w].fetched = resources[r]]
          /\ UNCHANGED resources
       \/ /\ pass' = [pass EXCEPT ![w].pc = "done",
                                  ![w].result = Result(0, Err("fetch", r))]
          /\ UNCHANGED resources
    /\ UNCHANGED <<groups, now, passes, stamp>>

\* Reconcile: fetch the GroupSync instance
Fetch(w) ==
    /\ pass[w].pc = "fetch"
    /\ LET r == pass[w].req IN
       \/ /\ ~resources[r].exists
          /\ pass' = [pass EXCEPT ![w].pc = "done", ![w].result = Result(0, NoErr)]
       \/ /\ resources[r].exists
          /\ pass' = [pass EXCEPT ![w].pc = "mgr", ![w].inst = resources[r],
                                  ![w].fetched = resources[r]]
       \/ /\ pass' = [pass EXCEPT ![w].pc = "done",
                                  ![w].result = Result(0, Err("fetch", r))]
    /\ UNCHANGED <<resources, groups, now, passes, stamp>>

\* Reconcile: syncer.GetGroupSyncMgr
GetGroupSyncMgr(w) ==
    /\ pass[w].pc = "mgr"
    /\ \/ /\ pass' = [pass EXCEPT ![w].pc = "defaults"]
          /\ UNCHANGED resources
       \/ \E updateOk \in BOOLEAN : manageError(w, Err("mgr", pass[w].req), updateOk)
    /\ UNCHANGED <<groups, now, passes, stamp>>

\* SetDefaults without the return after the successful Update
SetDefaultsFallsThrough(w) ==
    /\ pass[w].pc = "defaults"
    /\ LET r == pass[w].req
           changed == ~pass[w].inst.defaulted
       IN  IF changed
           THEN /\ pass' = [pass EXCEPT ![w] = [@ EXCEPT
                               !.pc = "validate",
                               !.inst = [@ EXCEPT !.defaulted = TRUE],
                               !.specUpdates = Append(@, TRUE)]]
                /\ resources' = [resources EXCEPT ![r].defaulted = TRUE]
           ELSE /\ pass' = [pass EXCEPT ![w].pc = "validate"]
                /\ UNCHANGED resources
    /\ UNCHANGED <<groups, now, passes, stamp>>

\* Reconcile: groupSyncMgr.SetDefaults() and the Update that persists them
SetDefaults(w) ==
    /\ pass[w].pc = "defaults"
    /\ LET r == pass[w].req
           changed == ~pass[w].inst.defaulted
       IN  IF changed
           THEN \/ /\ pass' = [pass EXCEPT ![w] = [@ EXCEPT
                                  !.pc = "done",
                                  !.inst = [@ EXCEPT !.defaulted = TRUE],
                                  !.specUpdates = Append(@, TRUE),
                                  !.result = Result(0, NoErr)]]
                   /\ resources' = [resources EXCEPT ![r].defaulted = TRUE]
                \/ /\ \E updateOk \in BOOLEAN :
                        LET failed == [pass EXCEPT ![w] = [@ EXCEPT
                                         !.inst = [@ EXCEPT !.defaulted = TRUE],
                                         !.specUpdates = Append(@, FALSE)]]
                        IN  manageErrorFrom(failed, w, Err("update", r), updateOk)
           ELSE /\ pass' = [pass EXCEPT ![w].pc = "validate"]
                /\ UNCHANGED resources
    /\ UNCHANGED <<groups, now, passes, stamp>>

\* the position after the current group of the current provider is finished:
\* the next group, else the next provider, else the success report
AfterProvider(ps) ==
    IF ps.pidx < Len(ProviderNames(ps.req))
    THEN [ps EXCEPT !.pc = "bind", !.pidx = @ + 1, !.groups = <<>>, !.gidx = 0,
                    !.ocpGroup = NoGroup]
    ELSE [ps EXCEPT !.pc = "success", !.groups = <<>>, !.gidx = 0, !.ocpGroup = NoGroup]

AfterGroup(ps) ==
    IF ps.gidx < Len(ps.groups)
    THEN [ps EXCEPT !.pc = "lookup", !.gidx = @ + 1, !.ocpGroup = NoGroup]
    ELSE AfterProvider(ps)

\* Reconcile: groupSyncMgr.Validate()
Validate(w) ==
    /\ pass[w].pc = "validate"
    /\ \/ /\ pass' = [pass EXCEPT ![w] = AfterProvider(@)]
          /\ UNCHANGED resources
       \/ \E updateOk \in BOOLEAN : manageError(w, Err("validate", pass[w].req), updateOk)
    /\ UNCHANGED <<groups, now, passes, stamp>>

CurrentProvider(ps) == ProviderNames(ps.req)[ps.pidx]
CurrentLabel(ps) == ProviderLabel(ps.req, CurrentProvider(ps))

\* Bind with a failure logged and the loop continued at the next provider
BindContinues(w) ==
    /\ pass[w].pc = "bind"
    /\ LET p == CurrentProvider(pass[w])
           called == [pass EXCEPT ![w].bound = Append(@, p)]
       IN  \/ pass' = [called EXCEPT ![w].pc = "sync"]
           \/ pass' = [called EXCEPT ![w] = AfterProvider(@)]
    /\ UNCHANGED <<resources, groups, now, passes, stamp>>

\* Reconcile: groupSyncer.Bind() of the current provider
Bind(w) ==
    /\ pass[w].pc = "bind"
    /\ LET p == CurrentProvider(pass[w])
           called == [pass EXCEPT ![w].bound = Append(@, p)]
       IN  \/ /\ pass' = [called EXCEPT ![w].pc = "sync"]
              /\ UNCHANGED resources
           \/ \E updateOk \in BOOLEAN : manageErrorFrom(called, w, Err("bind", p), updateOk)
    /\ UNCHANGED <<groups, now, passes, stamp>>

\* Reconcile: groupSyncer.Sync() of the current provider
Sync(w) ==
    /\ pass[w].pc = "sync"
    /\ LET p == CurrentProvider(pass[w])
           called == [pass EXCEPT ![w].synced = Append(@, p)]
       IN  \/ /\ \E gs \in SyncResults :
                    pass' = [called EXCEPT ![w] = AfterGroup([@ EXCEPT !.groups = gs])]
              /\ UNCHANGED resources
           \/ \E updateOk \in BOOLEAN : manageErrorFrom(called, w, Err("sync", p), updateOk)
    /\ UNCHANGED <<groups, now, passes, stamp>>

\* the resource named in an ownership label
LabelResource(label) ==
    CASE label \in {"gs1_ldap", "gs1_github", "gs1_keycloak"} -> "gs1"
      [] label = "gs2_ldap" -> "gs2"
      [] OTHER -> ""

\* the ownership check comparing the resource part of the label only
ManagedByOtherSameResource(ocpGroup, providerLabel) ==
    ~MapHas(ocpGroup.labels, SyncProvider)
      \/ LabelResource(MapGet(ocpGroup.labels, SyncProvider)) # LabelResource(providerLabel)

\* the ownership check with && written for ||: only unlabelled groups are
\* left alone
ManagedByOtherUnlabelledOnly(ocpGroup, providerLabel) ==
    ~MapHas(ocpGroup.labels, SyncProvider)

\* the ownership check with the missing label let through: a group without
\* ownership label is taken over
ManagedByOtherLabelledOnly(ocpGroup, providerLabel) ==
    MapHas(ocpGroup.labels, SyncProvider)
      /\ MapGet(ocpGroup.labels, SyncProvider) # providerLabel

\* the ownership check of Reconcile: the existing group is left alone when
\* its sync-provider label is missing or is not this provider's label
ManagedByOther(ocpGroup, providerLabel) ==
    ~MapHas(ocpGroup.labels, SyncProvider)
      \/ MapGet(ocpGroup.labels, SyncProvider) # providerLabel

\* Lookup with a group managed by another provider treated as an error
LookupSkipIsError(w) ==
    /\ pass[w].pc = "lookup"
    /\ LET group == pass[w].groups[pass[w].gidx]
           called == [pass EXCEPT ![w].reads = Append(@, group.name)]
       IN  \/ /\ ~groups[group.name].exists
              /\ pass' = [called EXCEPT ![w].pc = "upsert", ![w].ocpGroup = NoGroup]
              /\ UNCHANGED resources
           \/ /\ groups[group.name].exists
              /\ IF ManagedByOther(groups[group.name], CurrentLabel(pass[w]))
                 THEN \E updateOk \in BOOLEAN :
                        manageErrorFrom([called EXCEPT ![w].skipped = Append(@, group.name)],
                                        w, Err("owned", group.name), updateOk)
                 ELSE /\ pass' = [called EXCEPT ![w].pc = "upsert",
                                                ![w].ocpGroup = groups[group.name]]
                      /\ UNCHANGED resources
           \/ \E updateOk \in BOOLEAN :
                 manageErrorFrom(called, w, Err("get", group.name), updateOk)
    /\ UNCHANGED <<groups, now, passes, stamp>>

\* Reconcile: Get of the downstream group and the ownership check
Lookup(w) ==
    /\ pass[w].pc = "lookup"
    /\ LET group == pass[w].groups[pass[w].gidx]
           called == [pass EXCEPT ![w].reads = Append(@, group.name)]
       IN  \/ /\ ~groups[group.name].exists
              /\ pass' = [called EXCEPT ![w].pc = "upsert", ![w].ocpGroup = NoGroup]
              /\ UNCHANGED resources
           \/ /\ groups[group.name].exists
              /\ IF ManagedByOther(groups[group.name], CurrentLabel(pass[w]))
                 THEN pass' = [called EXCEPT ![w] =
                                 AfterGroup([@ EXCEPT !.skipped = Append(@, group.name)])]
                 ELSE pass' = [called EXCEPT ![w].pc = "upsert",
                                             ![w].ocpGroup = groups[group.name]]
              /\ UNCHANGED resources
           \/ \E updateOk \in BOOLEAN :
                 manageErrorFrom(called, w, Err("get", group.name), updateOk)
    /\ UNCHANGED <<groups, now, passes, stamp>>

\* the merge with the provider label added only when the external group
\* supplies none
MergedSuppliedWins(group, providerLabel, t) ==
    LET ocpGroupLabels == IF group.labels.isNil THEN {} ELSE group.labels.kv
        ocpGroupAnnotations == IF group.annotations.isNil THEN {} ELSE group.annotations.kv
    IN  Group(IF MapHas(ocpGroupLabels, SyncProvider) THEN ocpGroupLabels
              ELSE MapSet(ocpGroupLabels, SyncProvider, providerLabel),
              MapSet(ocpGroupAnnotations, SyncTimestamp, ISO8601(t)),
              group.users)

\* the object Reconcile hands to CreateOrUpdateResource: labels, annotations
\* and users of the external group, the provider label, the sync timestamp
Merged(group, providerLabel, t) ==
    LET ocpGroupLabels == IF group.labels.isNil THEN {} ELSE group.labels.kv
        ocpGroupAnnotations == IF group.annotations.isNil THEN {} ELSE group.annotations.kv
    IN  Group(MapSet(ocpGroupLabels, SyncProvider, providerLabel),
              MapSet(ocpGroupAnnotations, SyncTimestamp, ISO8601(t)),
              group.users)

\* Upsert with the external users added to the users the group already has
UpsertAppendsUsers(w) ==
    /\ pass[w].pc = "upsert"
    /\ LET group == pass[w].groups[pass[w].gidx]
           providerLabel == CurrentLabel(pass[w])
           merged == Merged(group, providerLabel, Now)
           ocpGroup == [merged EXCEPT !.users = pass[w].ocpGroup.users \o @]
           built == [pass EXCEPT ![w].ocpGroup = ocpGroup]
       IN  \/ /\ groups' = [groups EXCEPT ![group.name] = ocpGroup]
              /\ pass' = [built EXCEPT ![w] = AfterGroup([@ EXCEPT !.writes =
                             Append(@, [label |-> providerLabel, name |-> group.name,
                                        before |-> groups[group.name],
                                        obj |-> ocpGroup])])]
              /\ UNCHANGED resources
           \/ /\ \E updateOk \in BOOLEAN :
                    manageErrorFrom(built, w, Err("upsert", group.name), updateOk)
              /\ UNCHANGED groups
    /\ UNCHANGED <<now, passes, stamp>>

\* Upsert with a failed CreateOrUpdateResource logged and the loop continued
UpsertContinues(w) ==
    /\ pass[w].pc = "upsert"
    /\ LET group == pass[w].groups[pass[w].gidx]
           providerLabel == CurrentLabel(pass[w])
           ocpGroup == Merged(group, providerLabel, Now)
           built == [pass EXCEPT ![w].ocpGroup = ocpGroup]
       IN  \/ /\ groups' = [groups EXCEPT ![group.name] = ocpGroup]
              /\ pass' = [built EXCEPT ![w] = AfterGroup([@ EXCEPT !.writes =
                             Append(@, [label |-> providerLabel, name |-> group.name,
                                        before |-> groups[group.name],
                                        obj |-> ocpGroup])])]
           \/ /\ pass' = [built EXCEPT ![w] = AfterGroup(@)]
              /\ UNCHANGED groups
    /\ UNCHANGED <<resources, now, passes, stamp>>

\* Reconcile: build the group and CreateOrUpdateResource
Upsert(w) ==
    /\ pass[w].pc = "upsert"
    /\ LET group == pass[w].groups[pass[w].gidx]
           providerLabel == CurrentLabel(pass[w])
           ocpGroup == Merged(group, providerLabel, Now)
           built == [pass EXCEPT ![w].ocpGroup = ocpGroup]
       IN  \/ /\ groups' = [groups EXCEPT ![group.name] = ocpGroup]
              /\ pass' = [built EXCEPT ![w] = AfterGroup([@ EXCEPT !.writes =
                             Append(@, [label |-> providerLabel, name |-> group.name,
                                        before |-> groups[group.name],
                                        obj |-> ocpGroup])])]
              /\ UNCHANGED resources
           \/ /\ \E updateOk \in BOOLEAN :
                    manageErrorFrom(built, w, Err("upsert", group.name), updateOk)
              /\ UNCHANGED groups
    /\ UNCHANGED <<now, passes, stamp>>

\* manageSuccess with the error of the status update logged and dropped
manageSuccessDropsErr(inst, r, updateOk) ==
    LET reported == [inst EXCEPT !.conditions =
                       SetCondition(@, Condition(ReasonSucceeded, MessageSucceeded))]
    IN  [inst |-> reported, result |-> Result(0, NoErr)]

\* manageSuccess(instance): success condition and status update
manageSuccess(inst, r, updateOk) ==
    LET reported == [inst EXCEPT !.conditions =
                       SetCondition(@, Condition(ReasonSucceeded, MessageSucceeded))]
    IN  [inst |-> reported,
         result |-> IF updateOk THEN Result(0, NoErr) ELSE Result(0, Err("status", r))]

\* WithSchedule with the operands of Sub exchanged
WithScheduleReversed(successResult, schedule, unix) ==
    LET sched == ParseStandard(schedule).sched
    IN  IF sched = NilSchedule THEN Panic
        ELSE [successResult EXCEPT !.requeueAfter = unix - ScheduleNext(sched, unix)]

\* the requeue delay of Reconcile: the schedule is parsed with the parse
\* error dropped, and Next is called on what ParseStandard returned
WithSchedule(successResult, schedule, unix) ==
    LET sched == ParseStandard(schedule).sched
    IN  IF sched = NilSchedule THEN Panic
        ELSE [successResult EXCEPT !.requeueAfter = ScheduleNext(sched, unix) - unix]

\* the end of Reconcile without the err == nil test
RequeueResultIgnoresErr(successResult, schedule, unix) ==
    IF schedule # ""
    THEN WithSchedule(successResult, schedule, unix)
    ELSE successResult

\* the end of Reconcile: the delay is computed only when manageSuccess
\* returned no error and a schedule is set
RequeueResult(successResult, schedule, unix) ==
    IF successResult.err = NoErr /\ schedule # ""
    THEN WithSchedule(successResult, schedule, unix)
    ELSE successResult

\* Reconcile: all providers done; stamp, report success, requeue delay
Success(w) ==
    /\ pass[w].pc = "success"
    /\ \E updateOk \in BOOLEAN :
         LET r == pass[w].req
             stamped == [pass[w].inst EXCEPT !.lastSync = Unix(now)]
             ms == manageSuccess(stamped, r, updateOk)
         IN  /\ pass' = [pass EXCEPT ![w] = [@ EXCEPT
                           !.pc = "done", !.inst = ms.inst, !.stamped = TRUE,
                           !.statusUpdates = Append(@, updateOk),
                           !.result = RequeueResult(ms.result, stamped.schedule, Unix(now))]]
             /\ resources' = IF updateOk THEN StatusUpdate(resources, r, ms.inst)
                             ELSE resources
    /\ UNCHANGED <<groups, now, passes, stamp>>

Next ==
    \/ \E w \in SeqWorkers : Start(w)
    \/ \E w \in SeqWorkers : Fetch(w)
    \/ \E w \in SeqWorkers : GetGroupSyncMgr(w)
    \/ \E w \in SeqWorkers : SetDefaults(w)
    \/ \E w \in SeqWorkers : Validate(w)
    \/ \E w \in SeqWorkers : Bind(w)
    \/ \E w \in SeqWorkers : Sync(w)
    \/ \E w \in SeqWorkers : Lookup(w)
    \/ \E w \in SeqWorkers : Upsert(w)
    \/ \E w \in SeqWorkers : Success(w)

Spec == Init /\ [][Next]_vars

\* ------------------------------------------- passes on several workers
\* the store before the first of the interleaved passes: gs1 unscheduled,
\* defaulted or not, and no downstream group yet
InitConc ==
    /\ Init
    /\ resources["gs1"].schedule = ""
    /\ groups = [g \in GroupNames |-> NoGroup]

\* Reconcile is entered by a worker for a resource no other worker is
\* reconciling
StartConc(w) ==
    /\ pass[w].pc \in {"idle", "done"}
    /\ passes < MaxPasses
    /\ \E r \in Resources :
         /\ \A v \in Workers \ {w} : pass[v].pc \in {"idle", "done"} \/ pass[v].req # r
         /\ pass' = [pass EXCEPT ![w] = [IdlePass EXCEPT !.pc = "fetch", !.req = r]]
    /\ passes' = passes + 1
    /\ now' \in now..MaxTime
    /\ UNCHANGED <<resources, groups, stamp>>

NextConc ==
    \/ \E w \in Workers : StartConc(w)
    \/ \E w \in Workers : Fetch(w)
    \/ \E w \in Workers : GetGroupSyncMgr(w)
    \/ \E w \in Workers : SetDefaults(w)
    \/ \E w \in Workers : Validate(w)
    \/ \E w \in Workers : Bind(w)
    \/ \E w \in Workers : Sync(w)
    \/ \E w \in Workers : Lookup(w)
    \/ \E w \in Workers : Upsert(w)
    \/ \E w \in Workers : Success(w)

SpecConc == InitConc /\ [][NextConc]_vars

\* ------------------------------------------------------- ISO8601 alone
\* the whole-hour zone offsets of t.Zone()
OffsetHours == -12..14
\* 03:04:05, 15:04:05 and 23:59:59 UTC of 2023-01-05
FormatUnix == {ClockBase + 5, ClockBase + 5 + 43200, 86399}
\* the times handed to ISO8601: in UTC, and in a fixed zone of every offset
FormatTimes ==
    {[unix |-> u, zone |-> "UTC", offset |-> 0] : u \in FormatUnix}
    \cup {[unix |-> u, zone |-> "fixed", offset |-> h * 3600] :
            u \in FormatUnix, h \in OffsetHours}

InitFormat ==
    /\ resources = [r \in Resources |-> NoResource]
    /\ groups = [g \in GroupNames |-> NoGroup]
    /\ now = 0
    /\ passes = 0
    /\ pass = [w \in Workers |-> IdlePass]
    /\ \E t \in FormatTimes : stamp = [t |-> t, text |-> NotFormatted]

\* ISO8601(t)
Format ==
    /\ stamp.text = NotFormatted
    /\ stamp' = [stamp EXCEPT !.text = ISO8601(stamp.t)]
    /\ UNCHANGED <<resources, groups, now, passes, pass>>

NextFormat == Format

SpecFormat == InitFormat /\ [][NextFormat]_vars

\* ================================================================ claims
Done(w) == pass[w].pc = "done"
Last(q) == q[Len(q)]
\* the values stored under the ownership label of a group
OwnerLabels(g) == {p[2] : p \in {q \in g.labels : q[1] = SyncProvider}}
\* the object last written to the group named n in the pass ps
LastWritten(ps, n) ==
    LET idx == {i \in 1..Len(ps.writes) : ps.writes[i].name = n}
    IN  ps.writes[CHOOSE i \in idx : \A j \in idx : j <= i].obj
\* every group written in the pass ps is stored as it was last written
WritesRemain(ps) ==
    \A i \in 1..Len(ps.writes) :
        groups[ps.writes[i].name] = LastWritten(ps, ps.writes[i].name)

\* C1: a step of a pass that processes an existing downstream group whose
\* ownership label is absent or differs from the current provider's label
\* changes no group, records no write and does not go on to the write.
C1_ExclusiveOwnership ==
    [][\A w \in Workers :
         (/\ pass[w].pc \in {"lookup", "upsert"}
          /\ pass'[w] # pass[w]
          /\ LET g == groups[pass[w].groups[pass[w].gidx].name]
             IN  g.exists /\ OwnerLabels(g) # {CurrentLabel(pass[w])})
         => /\ groups' = groups
            /\ pass'[w].writes = pass[w].writes
            /\ pass'[w].pc # "upsert"]_vars

\* a pass has skipped a group it does not own and finished
C1_Witness ==
    \E w \in Workers : Done(w) /\ pass[w].skipped # <<>> /\ pass[w].writes # <<>>

\* C2: when a pass ends with the Bind or Sync error of its k-th provider, the
\* providers bound are exactly the first k in spec order, the providers
\* synced are the first k-1 (Bind failed) or k (Sync failed), the result is
\* that provider's error with no delay, and every group written earlier in
\* the pass is still stored as written.
C2_AbortWithoutRollback ==
    \A w \in Workers :
        (Done(w) /\ pass[w].result.err.kind \in {"bind", "sync"}) =>
            LET ps == pass[w]
                k == Len(ps.bound)
                names == ProviderNames(ps.req)
            IN  /\ k >= 1
                /\ ps.bound = SubSeq(names, 1, k)
                /\ ps.synced = SubSeq(names, 1,
                                      IF ps.result.err.kind = "bind" THEN k - 1 ELSE k)
                /\ ps.result = Result(0, Err(ps.result.err.kind, names[k]))
                /\ WritesRemain(ps)

\* the first provider has written a group, the second failed at Bind, and a
\* third provider is configured
C2_Witness ==
    \E w \in Workers :
        /\ Done(w)
        /\ pass[w].result.err = Err("bind", "github")
        /\ Len(ProviderNames(pass[w].req)) = 3
        /\ pass[w].writes # <<>>
        /\ pass[w].writes[1].label = "gs1_ldap"

\* C3: a step that writes a downstream group stores the external group's
\* users, and as labels the external group's labels other than the
\* ownership key plus the ownership key with the provider's label.
C3_FullOverwrite ==
    [][\A w \in Workers :
         (pass[w].pc = "upsert" /\ Len(pass'[w].writes) > Len(pass[w].writes)) =>
            LET group == pass[w].groups[pass[w].gidx]
                stored == groups'[group.name]
            IN  /\ stored.exists
                /\ stored.users = group.users
                /\ stored.labels =
                     {p \in group.labels.kv : p[1] # SyncProvider}
                       \cup {<<SyncProvider, CurrentLabel(pass[w])>>}]_vars

\* one pass has replaced the users and dropped the label foo=bar of a group
\* it owned, and has overridden a supplied ownership label
C3_Witness ==
    \E w \in Workers :
        /\ Done(w)
        /\ \E i \in 1..Len(pass[w].writes) :
              LET wr == pass[w].writes[i]
              IN  /\ wr.before.exists
                  /\ <<"foo", "bar">> \in wr.before.labels
                  /\ <<"foo", "bar">> \notin wr.obj.labels
                  /\ wr.before.users = <<"A", "B">>
                  /\ wr.obj.users = <<"C">>
        /\ \E i \in 1..Len(pass[w].writes) :
              /\ pass[w].writes[i].name = "Y"
              /\ <<SyncProvider, "evil">> \notin pass[w].writes[i].obj.labels
\* a failure condition and a warning event carrying the text of err
FailureReported(ps, err) ==
    /\ \E i \in 1..Len(ps.inst.conditions) :
          ps.inst.conditions[i] = Condition(ReasonError, ErrorText(err))
    /\ \E i \in 1..Len(ps.events) :
          ps.events[i].type = "Warning" /\ ps.events[i].message = ErrorText(err)

\* C4 as stated: whenever Reconcile has returned an error, whatever its
\* origin, the failure condition with the error text is set on the instance
\* and a warning event was emitted.
C4_EveryFailureReported ==
    \A w \in Workers :
        (Done(w) /\ pass[w].result.kind = "returned" /\ pass[w].result.err # NoErr)
            => FailureReported(pass[w], pass[w].result.err)

\* C4 amended: an error returned from syncer resolution, defaults persist,
\* validation, bind, sync, group lookup or upsert comes with the failure
\* condition set on the instance, one status update attempted and the
\* warning event emitted; a fetch error comes with no condition, event or
\* status update, and a status error of the success report comes with the
\* success condition and no event.
C4_ErrorPathReported ==
    \A w \in Workers :
        (Done(w) /\ pass[w].result.kind = "returned" /\ pass[w].result.err # NoErr) =>
            LET ps == pass[w]
                kind == ps.result.err.kind
            IN  /\ kind \in {"mgr", "update", "validate", "bind", "sync", "get", "upsert"}
                      => /\ FailureReported(ps, ps.result.err)
                         /\ Len(ps.statusUpdates) = 1
                         /\ Len(ps.events) = 1
                /\ kind = "fetch"
                      => ps.events = <<>> /\ ps.statusUpdates = <<>> /\ ps.inst = NoResource
                /\ kind = "status"
                      => /\ ps.events = <<>>
                         /\ ps.statusUpdates = <<FALSE>>
                         /\ \E i \in 1..Len(ps.inst.conditions) :
                               ps.inst.conditions[i] = Condition(ReasonSucceeded, MessageSucceeded)
                /\ kind \in {"mgr", "update", "validate", "bind", "sync", "get", "upsert",
                             "fetch", "status"}

\* a pass has failed at an upsert and reported it, the status update stored
C4_Witness ==
    \E w \in Workers :
        /\ Done(w)
        /\ pass[w].result.err.kind = "upsert"
        /\ pass[w].statusUpdates = <<TRUE>>
        /\ FailureReported(pass[w], pass[w].result.err)
        /\ resources[pass[w].req].conditions = pass[w].inst.conditions

\* the pass of worker w has run all providers and stored the success status
Succeeded(w) == Done(w) /\ pass[w].stamped /\ pass[w].statusUpdates = <<TRUE>>
\* the schedule is a non-empty string that is no cron expression
Malformed(schedule) == schedule # "" /\ ParseStandard(schedule).err # NoErr

\* C5: a pass that succeeded with a malformed schedule returns no error and
\* no delay, with the success condition in place.
C5_MalformedScheduleHarmless ==
    \A w \in Workers :
        (Succeeded(w) /\ Malformed(pass[w].inst.schedule)) =>
            /\ pass[w].result = Result(0, NoErr)
            /\ \E i \in 1..Len(pass[w].inst.conditions) :
                  pass[w].inst.conditions[i] = Condition(ReasonSucceeded, MessageSucceeded)

\* C6: a pass in which SetDefaults changed the spec and the Update succeeded
\* has bound and synced no provider, read and written no group, set no
\* condition or time, emitted no event, updated no status, and has returned
\* no error and no delay; the stored resource differs from the fetched one
\* in the defaulted spec only.
C6_DefaultingShortCircuit ==
    \A w \in Workers :
        (pass[w].pc # "idle" /\ pass[w].specUpdates = <<TRUE>>) =>
            LET ps == pass[w]
            IN  /\ Done(w)
                /\ ps.bound = <<>> /\ ps.synced = <<>>
                /\ ps.reads = <<>> /\ ps.writes = <<>> /\ ps.skipped = <<>>
                /\ ps.events = <<>> /\ ps.statusUpdates = <<>>
                /\ ~ps.stamped
                /\ ps.inst.conditions = ps.fetched.conditions
                /\ ps.inst.lastSync = ps.fetched.lastSync
                /\ ps.result = Result(0, NoErr)
                /\ resources[ps.req] = [ps.fetched EXCEPT !.defaulted = TRUE]

\* a pass has persisted defaults for a resource that was not defaulted
C6_Witness ==
    \E w \in Workers :
        Done(w) /\ pass[w].specUpdates = <<TRUE>> /\ ~pass[w].fetched.defaulted
          /\ pass[w].fetched.schedule = "* * * * *"

\* the result of worker w's pass carries a requeue delay
Attached(w) == pass[w].result.kind = "returned" /\ pass[w].result.requeueAfter # 0

C8_OriginalErrorWins ==
    \A w \in Workers :
        (Done(w) /\ pass[w].events # <<>> /\ ~Last(pass[w].statusUpdates)) =>
            /\ pass[w].result.kind = "returned"
            /\ ErrorText(pass[w].result.err) = pass[w].events[1].message
            /\ pass[w].result.err.kind # "status"
            /\ pass[w].result.requeueAfter = 0

\* a Sync failure was followed by a failed status update
C8_Witness ==
    \E w \in Workers :
        /\ Done(w)
        /\ pass[w].events # <<>>
        /\ pass[w].statusUpdates = <<FALSE>>
        /\ pass[w].result.err.kind = "sync"

\* C9: when all providers and upserts succeeded and the status update of the
\* success report failed, the pass returns that error with no delay, and
\* the groups written in the pass are still stored as written.
C9_SuccessPersistFailure ==
    \A w \in Workers :
        (Done(w) /\ pass[w].stamped /\ pass[w].statusUpdates = <<FALSE>>) =>
            /\ pass[w].result = Result(0, Err("status", pass[w].req))
            /\ pass[w].events = <<>>
            /\ WritesRemain(pass[w])

\* a scheduled pass wrote a group and failed to store the success status
C9_Witness ==
    \E w \in Workers :
        /\ Done(w) /\ pass[w].stamped /\ pass[w].statusUpdates = <<FALSE>>
        /\ pass[w].writes # <<>>
        /\ pass[w].inst.schedule = "* * * * *"

\* C10: the instance's lastSyncSuccessTime is set only in a pass that bound
\* and synced every provider, handled every reported group and entered no
\* error path; a pass on the error path keeps the fetched value and, when
\* its status update succeeds, stores the fetched value.
C10_StampOnlyOnFullSuccess ==
    \A w \in Workers :
        pass[w].pc # "idle" =>
            LET ps == pass[w]
            IN  /\ (ps.stamped \/ ps.inst.lastSync # ps.fetched.lastSync) =>
                      /\ Done(w)
                      /\ ps.bound = ProviderNames(ps.req)
                      /\ ps.synced = ProviderNames(ps.req)
                      /\ ps.events = <<>>
                      /\ Len(ps.reads) = Len(ps.writes) + Len(ps.skipped)
                      /\ ps.inst.lastSync = Unix(now)
                /\ ps.events # <<>> =>
                      /\ ~ps.stamped
                      /\ ps.inst.lastSync = ps.fetched.lastSync
                      /\ Last(ps.statusUpdates) =>
                            resources[ps.req].lastSync = ps.fetched.lastSync

\* after an earlier success a pass failed at its second provider, and its
\* stored status keeps the earlier time
C10_Witness ==
    \E w \in Workers :
        /\ Done(w)
        /\ pass[w].events # <<>>
        /\ pass[w].statusUpdates = <<TRUE>>
        /\ pass[w].fetched.lastSync # NoTime
        /\ pass[w].fetched.lastSync # Unix(now)
        /\ Len(pass[w].bound) = 2
        /\ resources[pass[w].req].lastSync = pass[w].fetched.lastSync

\* the positions in spec order of the providers of ps whose label is l
LabelIndex(ps, l) ==
    {k \in 1..Len(ProviderNames(ps.req)) :
        ProviderLabel(ps.req, ProviderNames(ps.req)[k]) = l}

\* providers are bound and synced one after another in spec order, and the
\* writes of a pass follow that order
InSpecOrder(ps) ==
    LET names == ProviderNames(ps.req)
    IN  /\ Len(ps.bound) <= Len(names)
        /\ ps.bound = SubSeq(names, 1, Len(ps.bound))
        /\ ps.synced = SubSeq(names, 1, Len(ps.synced))
        /\ Len(ps.bound) - Len(ps.synced) \in {0, 1}
        /\ \A i, j \in 1..Len(ps.writes) :
              i < j => \A a \in LabelIndex(ps, ps.writes[i].label) :
                         \A b \in LabelIndex(ps, ps.writes[j].label) : a <= b

\* C11: the providers of a pass are processed one after another in spec
\* order, and when a provider looks up (without a lookup error) a group that
\* an earlier provider of the same pass created, the group still carries the
\* earlier provider's label and the step skips it: no group changes, no
\* error is reported and the pass goes on.
C11_ProviderPriority ==
    [][\A w \in Workers :
         /\ pass'[w].pc \notin {"idle", "fetch"} => InSpecOrder(pass'[w])
         /\ (/\ pass[w].pc = "lookup"
             /\ pass'[w] # pass[w]
             /\ pass'[w].result.err.kind # "get"
             /\ \E i \in 1..Len(pass[w].writes) :
                   /\ pass[w].writes[i].name = pass[w].groups[pass[w].gidx].name
                   /\ ~pass[w].writes[i].before.exists
                   /\ pass[w].writes[i].label # CurrentLabel(pass[w]))
            => LET name == pass[w].groups[pass[w].gidx].name
               IN  /\ groups' = groups
                   /\ resources' = resources
                   /\ \E i \in 1..Len(pass[w].writes) :
                         /\ pass[w].writes[i].name = name
                         /\ OwnerLabels(groups[name]) = {pass[w].writes[i].label}
                   /\ pass'[w].skipped = Append(pass[w].skipped, name)
                   /\ pass'[w].writes = pass[w].writes
                   /\ pass'[w].events = pass[w].events
                   /\ pass'[w].result = NoResult
                   /\ pass'[w].pc \in {"lookup", "bind", "success"}]_vars

\* the first provider created X, the second provider reported X too and
\* skipped it, and the pass ended without error with X as the first wrote it
C11_Witness ==
    \E w \in Workers :
        /\ Done(w)
        /\ pass[w].result.err = NoErr
        /\ pass[w].writes # <<>>
        /\ pass[w].writes[1].name = "X"
        /\ ~pass[w].writes[1].before.exists
        /\ pass[w].writes[1].label = "gs1_ldap"
        /\ pass[w].skipped # <<>>
        /\ pass[w].skipped[1] = "X"
        /\ groups["X"] = pass[w].writes[1].obj

\* the groups a pass has looked up and neither written nor skipped
Unfinished(ps) == Len(ps.reads) - Len(ps.writes) - Len(ps.skipped)

\* C12: a pass never goes on past a group it has neither written nor
\* skipped; when a pass ends with the upsert error of the k-th group of its
\* p-th provider, groups 1..k of that provider are the last k looked up, the
\* providers bound and synced are the first p, every group written before
\* is still stored as written, lastSyncSuccessTime is not stamped, and the
\* upsert error is returned with the failure reported.
C12_UpsertFailureAborts ==
    \A w \in Workers :
        LET ps == pass[w]
        IN  /\ ps.pc \in {"lookup", "bind", "sync", "success"} => Unfinished(ps) = 0
            /\ (Done(w) /\ ps.result.err.kind = "upsert") =>
                  LET k == ps.gidx
                      n == Len(ps.reads)
                      names == ProviderNames(ps.req)
                  IN  /\ k >= 1 /\ n >= k
                      /\ ps.result = Result(0, Err("upsert", ps.groups[k].name))
                      /\ \A i \in 1..k : ps.reads[n - k + i] = ps.groups[i].name
                      /\ Unfinished(ps) = 1
                      /\ ps.bound = SubSeq(names, 1, ps.pidx)
                      /\ ps.synced = SubSeq(names, 1, ps.pidx)
                      /\ WritesRemain(ps)
                      /\ ~ps.stamped
                      /\ ps.inst.lastSync = ps.fetched.lastSync
                      /\ FailureReported(ps, ps.result.err)

\* the second provider of three failed at the upsert of its second group,
\* after the first provider had written a group
C12_Witness ==
    \E w \in Workers :
        /\ Done(w)
        /\ pass[w].result.err = Err("upsert", "Y")
        /\ pass[w].pidx = 2
        /\ pass[w].gidx = 2
        /\ pass[w].writes # <<>>
        /\ Len(ProviderNames(pass[w].req)) = 3

\* the instance of ps carries the success condition
SuccessReported(ps) ==
    \E i \in 1..Len(ps.inst.conditions) :
        ps.inst.conditions[i] = Condition(ReasonSucceeded, MessageSucceeded)

\* C13: a step that skips a group reports nothing, changes no stored object
\* and moves on to the next group, else to the next provider, else to the
\* success report; and a success report whose status update succeeds ends
\* the pass with the success condition, lastSyncSuccessTime stamped and
\* stored, and no error.
C13_SkipIsNotFailure ==
    [][\A w \in Workers :
         /\ Len(pass'[w].skipped) > Len(pass[w].skipped) =>
              /\ groups' = groups
              /\ resources' = resources
              /\ pass'[w].events = pass[w].events
              /\ pass'[w].statusUpdates = pass[w].statusUpdates
              /\ pass'[w].result = NoResult
              /\ IF pass[w].gidx < Len(pass[w].groups)
                 THEN /\ pass'[w].pc = "lookup"
                      /\ pass'[w].gidx = pass[w].gidx + 1
                      /\ pass'[w].pidx = pass[w].pidx
                 ELSE IF pass[w].pidx < Len(ProviderNames(pass[w].req))
                 THEN pass'[w].pc = "bind" /\ pass'[w].pidx = pass[w].pidx + 1
                 ELSE pass'[w].pc = "success"
         /\ (pass[w].pc = "success" /\ pass'[w].statusUpdates = <<TRUE>>) =>
              /\ pass'[w].pc = "done"
              /\ pass'[w].stamped
              /\ SuccessReported(pass'[w])
              /\ pass'[w].inst.lastSync = Unix(now)
              /\ resources'[pass[w].req].lastSync = Unix(now)
              /\ resources'[pass[w].req].conditions = pass'[w].inst.conditions
              /\ pass'[w].result.err = NoErr
              /\ pass'[w].events = <<>>]_vars

\* a pass skipped the hand-made group X, which is stored unchanged, wrote
\* another group and ended with the success status stored and no error
C13_Witness ==
    \E w \in Workers :
        /\ Done(w)
        /\ pass[w].skipped # <<>>
        /\ pass[w].writes # <<>>
        /\ groups["X"].exists /\ OwnerLabels(groups["X"]) = {}
        /\ pass[w].stamped
        /\ pass[w].statusUpdates = <<TRUE>>
        /\ pass[w].result = Result(0, NoErr)
        /\ SuccessReported(pass[w])
        /\ resources[pass[w].req].lastSync = Unix(now)

\* a group without its sync-timestamp annotation
StripTimestamp(g) == [g EXCEPT !.annotations = {p \in @ : p[1] # SyncTimestamp}]

\* the stored group g is what an application of the external group e with
\* the owner label leaves behind, whatever its timestamp
AppliedBefore(g, e, label) ==
    /\ g.exists
    /\ MapHas(g.annotations, SyncTimestamp)
    /\ g.users = e.users
    /\ g.labels = {p \in e.labels.kv : p[1] # SyncProvider} \cup {<<SyncProvider, label>>}
    /\ StripTimestamp(g).annotations = {p \in e.annotations.kv : p[1] # SyncTimestamp}

\* C14: a step that applies an external group to a downstream group that is
\* already the result of applying the same external group with the same
\* owner label leaves it as it was, the sync timestamp apart, and changes no
\* other group.
C14_UpsertIdempotent ==
    [][\A w \in Workers :
         (/\ pass[w].pc = "upsert"
          /\ Len(pass'[w].writes) > Len(pass[w].writes)
          /\ AppliedBefore(groups[pass[w].groups[pass[w].gidx].name],
                           pass[w].groups[pass[w].gidx], CurrentLabel(pass[w])))
         => LET name == pass[w].groups[pass[w].gidx].name
            IN  /\ StripTimestamp(groups'[name]) = StripTimestamp(groups[name])
                /\ MapHas(groups'[name].annotations, SyncTimestamp)
                /\ \A n \in GroupNames \ {name} : groups'[n] = groups[n]]_vars

\* a pass has applied to a group the external group an earlier pass had
\* applied at another time: only the timestamp differs
C14_Witness ==
    \E w \in Workers :
        /\ Done(w)
        /\ \E i \in 1..Len(pass[w].writes) :
              LET wr == pass[w].writes[i]
              IN  /\ wr.before.exists
                  /\ MapHas(wr.before.annotations, SyncTimestamp)
                  /\ StripTimestamp(wr.before) = StripTimestamp(wr.obj)
                  /\ wr.before # wr.obj
                  /\ groups[wr.name] = wr.obj

\* the conditions of type "groupsync" among conds
GroupSyncConditions(conds) ==
    {i \in 1..Len(conds) : conds[i].type = ConditionType}

\* the condition of the outcome a finished pass reported
OutcomeCondition(ps) ==
    IF ps.stamped THEN Condition(ReasonSucceeded, MessageSucceeded)
    ELSE Condition(ReasonError, ErrorText(ps.result.err))

\* C15: a stored resource never holds more than one condition of type
\* "groupsync", and a step whose status update is stored leaves exactly the
\* condition of that pass's outcome on the resource, whatever condition an
\* earlier pass had left there.
C15_SingleSlotCondition ==
    [][/\ \A r \in Resources :
            Cardinality(GroupSyncConditions(resources'[r].conditions)) <= 1
       /\ \A w \in Workers :
            (/\ Len(pass'[w].statusUpdates) > Len(pass[w].statusUpdates)
             /\ Last(pass'[w].statusUpdates))
            => resources'[pass[w].req].conditions = <<OutcomeCondition(pass'[w])>>]_vars

\* a pass found the failure condition of an earlier pass on the resource
\* and left the success condition alone there
C15_Witness ==
    \E w \in Workers :
        /\ Done(w)
        /\ Len(pass[w].fetched.conditions) = 1
        /\ pass[w].fetched.conditions[1].reason = ReasonError
        /\ pass[w].stamped
        /\ pass[w].statusUpdates = <<TRUE>>
        /\ resources[pass[w].req].conditions =
             <<Condition(ReasonSucceeded, MessageSucceeded)>>

\* C16: when the fetch finds no GroupSync resource of the requested name and
\* reports no other error, the pass ends in that step with no error and no
\* requeue delay, having updated no status, emitted no event, bound or
\* synchronised no provider and read or written no group; the stores are
\* as they were.
C16_NotFoundSilent ==
    [][\A w \in Workers :
         (/\ pass[w].pc = "fetch"
          /\ ~resources[pass[w].req].exists
          /\ pass'[w].result.err # Err("fetch", pass[w].req))
         => /\ pass'[w] = [IdlePass EXCEPT !.pc = "done", !.req = pass[w].req,
                                           !.result = Result(0, NoErr)]
            /\ resources' = resources
            /\ groups' = groups]_vars

\* a pass for a resource that is not stored has ended without error
C16_Witness ==
    \E w \in Workers :
        /\ Done(w)
        /\ ~resources[pass[w].req].exists
        /\ pass[w].result = Result(0, NoErr)
        /\ pass[w].statusUpdates = <<>>
        /\ pass[w].bound = <<>>

\* a number below 100 as two decimal digits
TwoDigits(n) == <<Digit(n \div 10), Digit(n % 10)>>

\* the zone suffix of a timestamp: Z in UTC, else sign, hours, minutes
ZoneSuffix(t) ==
    IF t.zone = "UTC" THEN <<"Z">>
    ELSE LET h == TruncDiv(t.offset, 3600)
         IN  <<IF h < 0 THEN "-" ELSE "+">>
             \o TwoDigits(IF h < 0 THEN -h ELSE h) \o <<"0", "0">>

\* the wall clock of t as YYYY-MM-DDTHH:MM:SS
DateTime(t) ==
    LET wall == t.unix + t.offset
        day == 5 + (wall \div 86400)
        sec == wall % 86400
    IN  <<"2", "0", "2", "3", "-", "0", "1", "-">> \o TwoDigits(day) \o <<"T">>
        \o TwoDigits(sec \div 3600) \o <<":">>
        \o TwoDigits((sec % 3600) \div 60) \o <<":">> \o TwoDigits(sec % 60)

\* C17: the text ISO8601 makes of a time is its wall clock as
\* YYYY-MM-DDTHH:MM:SS followed by Z in UTC and otherwise by a sign, a
\* two-digit hour and a two-digit minute offset.
C17_TimestampFormat ==
    stamp.text # NotFormatted
    => stamp.text = DateTime(stamp.t) \o ZoneSuffix(stamp.t)

\* the part of C17 the code keeps: UTC times and times west of UTC
C17_FormatUTCAndWest ==
    (stamp.text # NotFormatted /\ (stamp.t.zone = "UTC" \/ stamp.t.offset < 0))
    => stamp.text = DateTime(stamp.t) \o ZoneSuffix(stamp.t)

\* east of UTC and at offset zero outside UTC the sign is a third digit
C17_FormatEast ==
    (stamp.text # NotFormatted /\ stamp.t.zone # "UTC" /\ stamp.t.offset >= 0)
    => stamp.text = DateTime(stamp.t) \o <<"0">>
                    \o TwoDigits(stamp.t.offset \div 3600) \o <<"0", "0">>

\* the seconds between the fire times of a schedule that parses
Period(schedule) ==
    CASE schedule = "* * * * *" -> 60
      [] schedule = "*/2 * * * *" -> 120

\* the first fire time of the schedule strictly after the time t
NextFireTime(schedule, t) ==
    CHOOSE f \in (t + 1)..(t + Period(schedule)) : f % Period(schedule) = 0

C18_MidPeriod ==
    \E w \in Workers :
        /\ Done(w) /\ Attached(w)
        /\ Unix(now) % Period(pass[w].inst.schedule) # 0
        /\ pass[w].result.requeueAfter < Period(pass[w].inst.schedule)

\* the downstream group the worker is about to write is no longer what its
\* lookup read
StaleRead(w) ==
    /\ pass[w].pc = "upsert"
    /\ groups[pass[w].groups[pass[w].gidx].name] # pass[w].ocpGroup

\* C19: when passes of different resources interleave, the write of a pass
\* whose lookup is stale fails and ends the pass with that error, and no
\* step changes a group that carries the ownership label of another
\* provider.
C19_StaleWriteConflicts ==
    [][\A w \in Workers :
         /\ (StaleRead(w) /\ pass'[w] # pass[w])
            => /\ groups' = groups
               /\ pass'[w].pc = "done"
               /\ pass'[w].result = Result(0, Err("upsert", pass[w].groups[pass[w].gidx].name))
         /\ (pass[w].pc = "upsert" /\ pass'[w] # pass[w])
            => \A g \in GroupNames :
                 (groups[g].exists /\ OwnerLabels(groups[g]) # {CurrentLabel(pass[w])})
                 => groups'[g] = groups[g]]_vars

\* two passes are between lookup and write of the same group
C19_Interleaved ==
    \E v, w \in Workers :
        /\ v # w
        /\ pass[v].pc = "upsert" /\ pass[w].pc = "upsert"
        /\ pass[v].groups[pass[v].gidx].name = pass[w].groups[pass[w].gidx].name

\* C20: in passes that run one after the other, no step removes a stored
\* group or changes its ownership labelling: a group that carries an
\* ownership label keeps that value, a group that carries none gets none,
\* and a step that writes a stored group is a step of the provider whose
\* label the group carries.
C20_OwnershipStable ==
    [][\A g \in GroupNames :
         groups[g].exists
         => /\ groups'[g].exists
            /\ OwnerLabels(groups'[g]) = OwnerLabels(groups[g])
            /\ groups'[g] # groups[g]
               => \E w \in Workers :
                    /\ pass[w].pc = "upsert"
                    /\ OwnerLabels(groups[g]) = {CurrentLabel(pass[w])}]_vars

\* a pass has rewritten a group that carried its provider's label, with the
\* same label, and has left alone a group it does not own
C20_Witness ==
    \E w \in Workers :
        /\ Done(w)
        /\ pass[w].skipped # <<>>
        /\ \E i \in 1..Len(pass[w].writes) :
              LET wr == pass[w].writes[i]
              IN  /\ wr.before.exists
                  /\ wr.before # wr.obj
                  /\ OwnerLabels(wr.before) = {wr.label}
                  /\ OwnerLabels(wr.obj) = {wr.label}

\* a pass has left alone a stored group that carries no ownership label
C20_UnlabelledLeftAlone ==
    \E w \in Workers :
        /\ Done(w)
        /\ pass[w].skipped # <<>>
        /\ \E g \in GroupNames : groups[g].exists /\ OwnerLabels(groups[g]) = {}
====
